---- MODULE Spec2Model ----
(***************************************************************************)
(* The daemon session manager of the Typegen editor plugin: TgsParser in   *)
(* its two variants.                                                       *)
(*   "slot": src/unnamed/part_000 (parser/tgs-parser.ts), one              *)
(*           currentRequest, a newer request supersedes the older one.     *)
(*   "fifo": src/vscode-extension/src/extension.ts, requestQueue plus the  *)
(*           pendingRequests map that coalesces requests by file path.     *)
(* One step of the model is one callback of the Node event loop (a call    *)
(* from the editor, a child-process event, a timer, a setImmediate         *)
(* callback, a stream write callback) run to completion.  Continuations    *)
(* of `await` are microtasks: they run, in order, before any other         *)
(* callback.  The child process and the operating system are the           *)
(* environment.                                                            *)
(***************************************************************************)
EXTENDS Integers, Sequences, FiniteSets, TLC

\* Bounds of the model.
MaxStarts == 3          \* startDaemon() calls in one behaviour
MaxCalls == 3           \* parseFile()/parseContent() calls in one behaviour
MaxFaults == 2          \* failed spawns, crashes, timeouts and dispose() calls
MaxEvents == 4          \* startDaemon() calls and faults together
FrameCalls == 2         \* parseFile()/parseContent() calls in a behaviour of FrameSpec
MaxText == 4            \* symbols in the error strings of one reply
MaxLines == 5           \* lines of the validated document
MaxObjects == 3         \* `new TgsParser(...)` expressions evaluated in one behaviour
MaxMessage == 5         \* characters of an error message before the worker escapes it
MaxWire == 5            \* tokens of an error string as it arrives in result.errors
MaxTimers == 4          \* debounce timers armed in one behaviour
MaxParses == 3          \* parse requests doValidation starts for one document
Keys == {"a", "b"}      \* file paths

Attempts == 1..MaxStarts
Callers == 1..MaxCalls
Variants == {"slot", "fifo"}
\* File paths are interchangeable: the first call uses the first one.
KeysFor(c) == IF c = 1 THEN {"a"} ELSE Keys

VARIABLES
    variant,                \* which of the two TgsParser classes runs
    daemonProcess,          \* 0 = null, else the process of that start attempt
    isDaemonReady,
    stdoutBuffer,           \* sequence of symbols, see NL
    initializationPromise,  \* 0 = null, else the promise of that start attempt
    currentRequest,         \* slot: 0 = null, else the caller whose closure it holds
    requestQueue,           \* fifo: sequence of entries, each named by its creator
    pendingRequests,        \* fifo: file path -> entry (0 = no such key)
    attached,               \* fifo: entry -> callers whose wrappers were added to it
    promise,                \* per attempt: the promise startDaemon() returned
    startupTimeout,         \* per attempt: its 10 s timer
    immediates,             \* attempts with a setImmediate(processStdoutBuffer) due
    proc,                   \* per attempt: the child process it spawned
    waiters,                \* per attempt: callers suspended in `await` on its promise
    microtasks,             \* callers whose `await` was fulfilled, in resume order
    call,                   \* per caller: its parseFile()/parseContent() call
    outcome,                \* per caller: how the promise it was given settled
    writeCallbacks,         \* callers whose stdin.write callback will report an error
    nStarts, nCalls, nFaults,
    arrived,                \* the chunks the stdout 'data' handler was called with
    framed,                 \* the lines the `for (const line of lines)` loop has seen
    errors,                 \* diagnostics: the errors array of the worker's reply
    lineCount,              \* diagnostics: document.lineCount
    validation,             \* diagnostics: where doValidation() of the document is
    diagnosticCollection,   \* diagnostics: what the collection holds for the document
    instance,               \* static TgsParser.instance: 0 = null, else that object
    constructed,            \* what each `new TgsParser(...)` evaluated to, in order
    original,               \* escapes: the error message the worker reports
    wire,                   \* escapes: the element of result.errors after JSON.parse
    decoded,                \* escapes: what each processErrors call in a row returned
    validationTimeout,      \* debounce: uri -> the timer the map holds (0 = no entry)
    timeouts,               \* debounce: the timers created, each [uri, st]
    parses,                 \* debounce: uri -> parse requests doValidation has started
    providerDisposed,       \* debounce: TgsDiagnosticProvider.dispose() has run
    activation,             \* extension: where activate() is
    diagnosticProvider,     \* extension: FALSE = null, TRUE = the provider activate() made
    restart,                \* extension: where the restart command is, and the start it awaits
    revalidated,            \* extension: documents the last restart called validateDocument for
    settledLog,             \* callers in the order their promises settled
    acceptedLog             \* callers in the order their promise executor ran

sessVars == <<daemonProcess, isDaemonReady, stdoutBuffer, initializationPromise>>
reqVars == <<currentRequest, requestQueue, pendingRequests, outcome, settledLog,
             promise, waiters, microtasks>>
callVars == <<call, attached, acceptedLog, nCalls>>
envVars == <<proc, startupTimeout, immediates, writeCallbacks>>
histVars == <<arrived, framed>>
docVars == <<errors, lineCount, validation, diagnosticCollection>>
parserVars == <<variant, sessVars, reqVars, callVars, envVars, nStarts, nFaults, histVars>>
escVars == <<original, wire, decoded>>
debVars == <<validationTimeout, timeouts, parses, providerDisposed>>
extVars == <<activation, diagnosticProvider, restart, revalidated>>
appVars == <<instance, constructed, escVars, debVars, extVars>>
vars == <<parserVars, docVars, appVars>>

----------------------------------------------------------------------------
\* Text on the child's stdout.  A record is one symbol; NL is '\n', SP is
\* white space (a blank, the '\r' of a CRLF line end), and Junk is text that is
\* not JSON.
NL == [t |-> "nl", c |-> 0]
SP == [t |-> "sp", c |-> 0]
Junk == [t |-> "junk", c |-> 0]
ReadyRec == [t |-> "ready", c |-> 0]      \* {"status":"ready"}
ResultRec(c) == [t |-> "res", c |-> c]    \* the reply to the line caller c wrote
\* a reply to caller c whose `errors` has a length but is no list of strings,
\* as in {"success":false,"errors":"x"} or {"success":false,"errors":[1]}
BadErrorsRec(c) == [t |-> "badres", c |-> c]

\* Promise outcomes seen by a caller.
NoOutcome == [kind |-> "none", reply |-> 0, reason |-> ""]
Resolved(v) == [kind |-> "ok", reply |-> v, reason |-> ""]
Rejected(r) == [kind |-> "err", reply |-> 0, reason |-> r]

NoProc == [st |-> "none", code |-> "", hasStdout |-> FALSE,
           stdin |-> <<>>, stdout |-> <<>>]
NoCall == [st |-> "new", filePath |-> "", servedBy |-> 0]

\* The mutable request and promise state a handler works on, as one record.
Heap ==
    [cur |-> currentRequest, queue |-> requestQueue, pend |-> pendingRequests,
     out |-> outcome, log |-> settledLog,
     promise |-> promise, waiters |-> waiters, micro |-> microtasks]

SetHeap(H) ==
    /\ currentRequest' = H.cur
    /\ requestQueue' = H.queue
    /\ pendingRequests' = H.pend
    /\ outcome' = H.out
    /\ settledLog' = H.log
    /\ promise' = H.promise
    /\ waiters' = H.waiters
    /\ microtasks' = H.micro

\* resolve()/reject() of a caller's promise: only the first call has an effect.
Settle(H, c, o) ==
    IF H.out[c].kind = "none"
    THEN [H EXCEPT !.out[c] = o, !.log = Append(@, c)]
    ELSE H

RECURSIVE SettleAll(_, _, _)
SettleAll(H, cs, o) ==
    IF cs = <<>> THEN H ELSE SettleAll(Settle(H, Head(cs), o), Tail(cs), o)

----------------------------------------------------------------------------
\* The promise of start attempt a (resolveInitialize / rejectInitialize).  A caller
\* suspended in `await` on it resumes in a microtask when it is fulfilled, and
\* its own promise rejects with the same reason when it is rejected.
resolveInitialize(H, a) ==
    IF H.promise[a] = "pending"
    THEN [H EXCEPT !.promise[a] = "resolved",
                   !.micro = @ \o H.waiters[a],
                   !.waiters[a] = <<>>]
    ELSE H

rejectInitialize(H, a, reason) ==
    IF H.promise[a] = "pending"
    THEN [SettleAll(H, H.waiters[a], Rejected(reason))
             EXCEPT !.promise[a] = reason, !.waiters[a] = <<>>]
    ELSE H

\* EntryResolve with the wrappers of the later callers left out.
ResolveOwnerOnly(H, x, v) ==
    Settle([H EXCEPT !.pend[call[x].filePath] = 0], x, Resolved(v))

\* fifo: request.resolve / request.reject of the entry created by caller x.  The
\* innermost closure deletes the entry's key from pendingRequests and settles x;
\* each wrapper added by a later caller of the same key then settles that caller.
EntryResolve(H, x, v) ==
    SettleAll(Settle([H EXCEPT !.pend[call[x].filePath] = 0], x, Resolved(v)),
              attached[x], Resolved(v))

EntryReject(H, x, reason) ==
    SettleAll(Settle([H EXCEPT !.pend[call[x].filePath] = 0], x, Rejected(reason)),
              attached[x], Rejected(reason))

RECURSIVE RejectEach(_, _, _)
RejectEach(H, q, reason) ==
    IF q = <<>> THEN H ELSE RejectEach(EntryReject(H, Head(q), reason), Tail(q), reason)

rejectAllPendingSlot(H, reason) ==
    IF H.cur # 0
    THEN [Settle(H, H.cur, Rejected(reason)) EXCEPT !.cur = 0]
    ELSE H

rejectAllPendingFifo(H, reason) ==
    [RejectEach(H, H.queue, reason)
        EXCEPT !.pend = [k \in Keys |-> 0], !.queue = <<>>]

\* rejectAllPending that rejects nothing.
rejectNothing(H, reason) == H

rejectAllPending(H, reason) ==
    IF variant = "slot" THEN rejectAllPendingSlot(H, reason)
    ELSE rejectAllPendingFifo(H, reason)

\* fifo: the first queue entry of that file path is removed and rejected.
RemoveAt(q, i) == SubSeq(q, 1, i - 1) \o SubSeq(q, i + 1, Len(q))

handleFailedRequest(H, filePath) ==
    LET hits == {i \in 1..Len(H.queue) : call[H.queue[i]].filePath = filePath}
    IN  IF hits = {} THEN H
        ELSE LET i == CHOOSE j \in hits : \A m \in hits : j <= m
                 request == H.queue[i]
             IN  EntryReject([H EXCEPT !.queue = RemoveAt(@, i),
                                       !.pend[filePath] = 0],
                             request, "sendfailed")

----------------------------------------------------------------------------
\* stdoutBuffer.split('\n'): the complete lines and the trailing fragment.
RECURSIVE SplitLines(_, _, _)
SplitLines(buf, lines, frag) ==
    IF buf = <<>> THEN [lines |-> lines, rest |-> frag]
    ELSE IF Head(buf) = NL THEN SplitLines(Tail(buf), Append(lines, frag), <<>>)
    ELSE SplitLines(Tail(buf), lines, Append(frag, Head(buf)))

\* Split that throws away the fragment after the last newline.
SplitDropsFragment(buf) == [SplitLines(buf, <<>>, <<>>) EXCEPT !.rest = <<>>]

Split(buf) == SplitLines(buf, <<>>, <<>>)

\* line.trim() is empty.
Blank(line) == \A i \in 1..Len(line) : line[i] = SP

\* JSON.parse of one line: white space around the value is skipped; the line
\* decodes iff what is left is exactly one record.
NotSpace(s) == s # SP
Strip(line) == SelectSeq(line, NotSpace)
Decodes(line) == Len(Strip(line)) = 1 /\ Strip(line)[1].t \in {"ready", "res", "badres"}
Record(line) == Strip(line)[1]

\* One iteration of the `for (const line of lines)` loop.  S carries the heap,
\* the ready flag and the timers through the loop; a is the start attempt whose
\* closure (resolveInitialize, startupTimeout) the callback was created with.
ResultSlot(H, v) ==
    IF H.cur # 0
    THEN [Settle(H, H.cur, Resolved(v)) EXCEPT !.cur = 0]
    ELSE H

ResultFifo(H, v) ==
    IF H.queue # <<>>
    THEN EntryResolve([H EXCEPT !.queue = Tail(@)], Head(H.queue), v)
    ELSE H

\* processErrors(result.errors) throws a TypeError (errors.map or error.replace
\* is not a function); the catch around the loop body logs it.  slot: thrown
\* before currentRequest.resolve, the slot is left as it was.  fifo: thrown
\* after requestQueue.shift() and before request.resolve.
ErrorsThrowSlot(H) == H

ErrorsThrowFifo(H) ==
    IF H.queue # <<>> THEN [H EXCEPT !.queue = Tail(@)] ELSE H

clearTimeout(timers, a) ==
    IF timers[a] = "armed" THEN [timers EXCEPT ![a] = "cleared"] ELSE timers

\* ProcessLine that takes every record for the ready record.
ProcessLineAnyReady(S, line, a) ==
    IF Blank(line) THEN S
    ELSE IF ~Decodes(line) THEN S
    ELSE [S EXCEPT !.ready = TRUE,
                   !.timers = clearTimeout(@, a),
                   !.H = resolveInitialize(@, a)]

\* ProcessLine that hands a line that is not JSON to the waiting request.
ProcessLineAnyResult(S, line, a) ==
    IF Blank(line) THEN S
    ELSE IF Decodes(line) /\ Record(line).t = "ready"
    THEN [S EXCEPT !.ready = TRUE,
                   !.timers = clearTimeout(@, a),
                   !.H = resolveInitialize(@, a)]
    ELSE LET v == IF Decodes(line) THEN Record(line).c ELSE 0
         IN  [S EXCEPT !.H = IF variant = "slot" THEN ResultSlot(@, v)
                             ELSE ResultFifo(@, v)]

ProcessLine(S, line, a) ==
    IF Blank(line) THEN S
    ELSE IF ~Decodes(line) THEN S
    ELSE IF Record(line).t = "ready"
    THEN [S EXCEPT !.ready = TRUE,
                   !.timers = clearTimeout(@, a),
                   !.H = resolveInitialize(@, a)]
    ELSE IF Record(line).t = "badres"
    THEN [S EXCEPT !.H = IF variant = "slot" THEN ErrorsThrowSlot(@)
                         ELSE ErrorsThrowFifo(@)]
    ELSE [S EXCEPT !.H = IF variant = "slot" THEN ResultSlot(@, Record(line).c)
                         ELSE ResultFifo(@, Record(line).c)]

RECURSIVE ProcessLines(_, _, _)
ProcessLines(S, lines, a) ==
    IF lines = <<>> THEN S
    ELSE ProcessLines(ProcessLine(S, Head(lines), a), Tail(lines), a)

\* processStdoutBuffer that leaves the whole text in the buffer.
processStdoutBufferKeepsText(a) ==
    LET sp == Split(stdoutBuffer)
        S  == ProcessLines([H |-> Heap, ready |-> isDaemonReady,
                            timers |-> startupTimeout], sp.lines, a)
    IN  /\ a \in immediates
        /\ immediates' = immediates \ {a}
        /\ isDaemonReady' = S.ready
        /\ startupTimeout' = S.timers
        /\ SetHeap(S.H)
        /\ framed' = framed \o sp.lines
        /\ UNCHANGED <<appVars, docVars, variant, daemonProcess, initializationPromise, callVars,
                       proc, writeCallbacks, nStarts, nFaults, stdoutBuffer, arrived>>

\* setImmediate(() => this.processStdoutBuffer(resolveInitialize, ..., startupTimeout))
processStdoutBuffer(a) ==
    LET sp == Split(stdoutBuffer)
        S  == ProcessLines([H |-> Heap, ready |-> isDaemonReady,
                            timers |-> startupTimeout], sp.lines, a)
    IN  /\ a \in immediates
        /\ immediates' = immediates \ {a}
        /\ stdoutBuffer' = sp.rest
        /\ isDaemonReady' = S.ready
        /\ startupTimeout' = S.timers
        /\ SetHeap(S.H)
        /\ framed' = framed \o sp.lines
        /\ arrived' = arrived
        /\ UNCHANGED <<appVars, docVars, variant, daemonProcess, initializationPromise, callVars,
                       proc, writeCallbacks, nStarts, nFaults>>

----------------------------------------------------------------------------
\* What spawn() can do: start the child; fail asynchronously (the child then
\* emits 'error' on the next tick and 'close' after it: ENOENT, EACCES, and
\* EMFILE, which also leaves child.stdout unset); or throw.
SpawnOutcomes == {"ok", "ENOENT", "EACCES", "EMFILE", "throw"}

\* A spawn that does not start the child uses up one of the MaxFaults; the
\* outcome is not looked at when startDaemon() finds the session ready.
CanFault == nFaults < MaxFaults /\ nStarts + nFaults < MaxEvents
Cost(o) == IF o = "ok" THEN 0 ELSE 1
Affordable(o) ==
    /\ nFaults + Cost(o) <= MaxFaults
    /\ nStarts + nFaults + Cost(o) < MaxEvents
    /\ isDaemonReady /\ daemonProcess # 0 => o = "ok"

\* A callback of the event loop may start only when no microtask and no
\* process.nextTick callback (the 'error' of a failed spawn) is due.
NoTick == \A p \in Attempts : proc[p].st # "failing"
Loop == microtasks = <<>> /\ NoTick

\* kill that sends no signal.
killNothing(procs, p) == procs

kill(procs, p) ==
    IF p = 0 THEN procs
    ELSE [procs EXCEPT ![p].st = IF @ = "running" THEN "exited" ELSE @]

stdinWritable ==
    /\ daemonProcess # 0
    /\ proc[daemonProcess].st = "running"

\* The executor of the promise startDaemon() returns, for attempt a and spawn
\* outcome o.  D carries the heap, the process handle, the timers and the
\* processes.
startDaemon(H, a, o) ==
    LET D == [H |-> [H EXCEPT !.promise[a] = "pending"], dp |-> daemonProcess,
              timers |-> startupTimeout, procs |-> proc]
        child == [NoProc EXCEPT !.st = IF o = "ok" THEN "running" ELSE "failing",
                                !.code = o, !.hasStdout = (o # "EMFILE"),
                                !.stdout = IF o = "ok" THEN <<ReadyRec, NL>> ELSE <<>>]
    IN  IF isDaemonReady /\ daemonProcess # 0
        THEN [D EXCEPT !.H = resolveInitialize(@, a)]
        ELSE IF o = "throw"
        THEN [D EXCEPT !.H = rejectInitialize(@, a, "spawnthrow")]
        ELSE IF o = "EMFILE"
        THEN [D EXCEPT !.dp = a, !.procs[a] = child, !.timers[a] = "cleared",
                       !.H = rejectInitialize(rejectAllPending(@, "nostdout"),
                                              a, "nostdout")]
        ELSE [D EXCEPT !.dp = a, !.procs[a] = child, !.timers[a] = "armed"]

SetDaemon(D) ==
    /\ daemonProcess' = D.dp
    /\ startupTimeout' = D.timers
    /\ proc' = D.procs

\* Await that resumes the caller at once, whatever the promise's state.
AwaitNothing(H, c, a) == [H EXCEPT !.micro = Append(@, c)]

\* `await p` by caller c.
Await(H, c, a) ==
    IF H.promise[a] = "pending" THEN [H EXCEPT !.waiters[a] = Append(@, c)]
    ELSE IF H.promise[a] = "resolved" THEN [H EXCEPT !.micro = Append(@, c)]
    ELSE Settle(H, c, Rejected(H.promise[a]))

\* stdin.write(line, cb) on the current handle: the line of caller c reaches a
\* running child; a child that has exited makes the callback report an error;
\* a null handle throws.
Write(c) ==
    IF daemonProcess = 0
    THEN UNCHANGED <<proc, writeCallbacks>>
    ELSE IF proc[daemonProcess].st = "running"
    THEN /\ proc' = [proc EXCEPT ![daemonProcess].stdin = Append(@, c)]
         /\ UNCHANGED writeCallbacks
    ELSE /\ writeCallbacks' = writeCallbacks \cup {c}
         /\ UNCHANGED proc

Thrown(H, c) ==
    IF daemonProcess = 0 THEN Settle(H, c, Rejected("typeerror")) ELSE H

\* SupersedeSlot without the reject of the earlier request.
SupersedeWithoutCancel(H, c) == [H EXCEPT !.cur = c]

\* slot: the executor of parseContent / parseFile.
SupersedeSlot(H, c) ==
    [(IF H.cur # 0 THEN Settle(H, H.cur, Rejected("cancelled")) ELSE H)
        EXCEPT !.cur = c]

parseContentBody(H, c, k) ==
    /\ SetHeap(Thrown(SupersedeSlot(H, c), c))
    /\ Write(c)
    /\ call' = [call EXCEPT ![c] = [st |-> "sent", filePath |-> k, servedBy |-> c]]
    /\ acceptedLog' = Append(acceptedLog, c)
    /\ UNCHANGED attached

\* EnqueueFifo with unshift in place of push.
EnqueueAtFront(H, c, k) ==
    [H EXCEPT !.pend[k] = c, !.queue = <<c>> \o @]

\* fifo: the rest of parseFile after the readiness check.
EnqueueFifo(H, c, k) ==
    [H EXCEPT !.pend[k] = c, !.queue = Append(@, c)]

\* parseFileBody without the pendingRequests.has(requestKey) branch.
parseFileBodyNoJoin(H, c, k) ==
    /\ SetHeap(Thrown(EnqueueFifo(H, c, k), c))
    /\ Write(c)
    /\ call' = [call EXCEPT ![c] = [st |-> "sent", filePath |-> k, servedBy |-> c]]
    /\ acceptedLog' = Append(acceptedLog, c)
    /\ UNCHANGED attached

parseFileBody(H, c, k) ==
    IF H.pend[k] # 0
    THEN /\ attached' = [attached EXCEPT ![H.pend[k]] = Append(@, c)]
         /\ call' = [call EXCEPT ![c] = [st |-> "sent", filePath |-> k,
                                        servedBy |-> H.pend[k]]]
         /\ SetHeap(H)
         /\ acceptedLog' = Append(acceptedLog, c)
         /\ UNCHANGED <<proc, writeCallbacks>>
    ELSE /\ SetHeap(Thrown(EnqueueFifo(H, c, k), c))
         /\ Write(c)
         /\ call' = [call EXCEPT ![c] = [st |-> "sent", filePath |-> k, servedBy |-> c]]
         /\ acceptedLog' = Append(acceptedLog, c)
         /\ UNCHANGED attached

Executor(H, c, k) ==
    IF variant = "slot" THEN parseContentBody(H, c, k) ELSE parseFileBody(H, c, k)

----------------------------------------------------------------------------
SessionInit ==
    /\ variant \in Variants
    /\ daemonProcess = 0
    /\ isDaemonReady = FALSE
    /\ stdoutBuffer = <<>>
    /\ initializationPromise = 0
    /\ currentRequest = 0
    /\ requestQueue = <<>>
    /\ pendingRequests = [k \in Keys |-> 0]
    /\ attached = [c \in Callers |-> <<>>]
    /\ promise = [a \in Attempts |-> "none"]
    /\ startupTimeout = [a \in Attempts |-> "none"]
    /\ immediates = {}
    /\ proc = [a \in Attempts |-> NoProc]
    /\ waiters = [a \in Attempts |-> <<>>]
    /\ microtasks = <<>>
    /\ call = [c \in Callers |-> NoCall]
    /\ outcome = [c \in Callers |-> NoOutcome]
    /\ writeCallbacks = {}
    /\ nStarts = 0
    /\ nCalls = 0
    /\ nFaults = 0
    /\ arrived = <<>> /\ framed = <<>>
    /\ settledLog = <<>>
    /\ acceptedLog = <<>>

\* activate() has run `new TgsParser(typegenOutputChannel)`: the first object
\* is the instance.
Constructed == instance = 1 /\ constructed = <<1>>

\* No error string is being processed.
NoErrorText == original = <<>> /\ wire = <<>> /\ decoded = <<>>

\* The documents of the workspace, by uri.
Uris == {"a", "b"}

\* activate() has not passed its `await parser.initialize()`, and the restart
\* command has not run.
NoRestart == [st |-> "idle", a |-> 0]
Dormant ==
    /\ activation = "idle"
    /\ diagnosticProvider = FALSE
    /\ restart = NoRestart
    /\ revalidated = {}

\* new TgsDiagnosticProvider(context, parser): the timer map is empty.
NoDebounce ==
    /\ validationTimeout = [u \in Uris |-> 0]
    /\ timeouts = <<>>
    /\ parses = [u \in Uris |-> 0]
    /\ providerDisposed = FALSE

\* No document is being validated.
Init ==
    /\ SessionInit
    /\ Constructed
    /\ NoErrorText
    /\ NoDebounce
    /\ Dormant
    /\ errors = <<>>
    /\ lineCount = 1
    /\ validation = "idle"
    /\ diagnosticCollection = <<>>

\* initialize() called by the extension (activate, the restart command) when it
\* has to start the daemon.  A call on a ready session, or while a start is in
\* progress, returns the existing promise and changes no state.
initializeBody ==
    /\ Loop
    /\ ~(isDaemonReady /\ daemonProcess # 0)
    /\ initializationPromise = 0
    /\ nStarts < MaxStarts
    /\ \E o \in SpawnOutcomes :
          LET D == startDaemon(Heap, nStarts + 1, o)
          IN  /\ Affordable(o)
              /\ SetHeap(D.H)
              /\ SetDaemon(D)
              /\ nFaults' = nFaults + Cost(o)
    /\ initializationPromise' = nStarts + 1
    /\ nStarts' = nStarts + 1
    /\ UNCHANGED <<docVars, histVars, variant, isDaemonReady, stdoutBuffer, callVars, immediates,
                   writeCallbacks>>

initialize == initializeBody /\ UNCHANGED appVars

\* initialize() without its checks: startDaemon() is called every time.
initializeUnguarded ==
    /\ Loop
    /\ nStarts < MaxStarts
    /\ LET D == startDaemon(Heap, nStarts + 1, "ok")
       IN  SetHeap(D.H) /\ SetDaemon(D)
    /\ initializationPromise' = nStarts + 1
    /\ nStarts' = nStarts + 1
    /\ UNCHANGED <<appVars, docVars, histVars, variant, isDaemonReady, stdoutBuffer, callVars, immediates,
                   writeCallbacks, nFaults>>

\* initialize() that starts nothing: on a ready session it returns
\* Promise.resolve(), and otherwise, when initializationPromise is set, that
\* promise.
initializeReturns ==
    /\ Loop
    /\ (isDaemonReady /\ daemonProcess # 0) \/ initializationPromise # 0
    /\ UNCHANGED vars

\* parseFile / parseContent on a ready session with a writable stdin: the
\* executor runs in the same callback.
SubmitReady ==
    /\ Loop
    /\ nCalls < MaxCalls
    /\ isDaemonReady /\ stdinWritable
    /\ \E k \in KeysFor(nCalls + 1) : Executor(Heap, nCalls + 1, k)
    /\ nCalls' = nCalls + 1
    /\ UNCHANGED <<appVars, docVars, histVars, variant, sessVars, startupTimeout, immediates, nStarts, nFaults>>

\* parseFile / parseContent that has to start the daemon first.
SubmitStart ==
    /\ Loop
    /\ nCalls < MaxCalls
    /\ ~(isDaemonReady /\ stdinWritable)
    /\ variant = "slot" => ~(isDaemonReady /\ daemonProcess # 0)
    /\ initializationPromise = 0
    /\ nStarts < MaxStarts
    /\ \E k \in KeysFor(nCalls + 1), o \in SpawnOutcomes :
          LET c == nCalls + 1
              D == startDaemon(Heap, nStarts + 1, o)
          IN  /\ Affordable(o)
              /\ SetHeap(Await(D.H, c, nStarts + 1))
              /\ SetDaemon(D)
              /\ nFaults' = nFaults + Cost(o)
              /\ call' = [call EXCEPT ![c] = [st |-> "init", filePath |-> k,
                                             servedBy |-> 0]]
    /\ initializationPromise' = nStarts + 1
    /\ nStarts' = nStarts + 1
    /\ nCalls' = nCalls + 1
    /\ UNCHANGED <<appVars, docVars, histVars, variant, isDaemonReady, stdoutBuffer, attached, acceptedLog,
                   immediates, writeCallbacks>>

\* parseFile / parseContent that awaits a promise that exists already: the one
\* in initializationPromise, or (slot, initialize() on a ready session whose
\* stdin is not writable) Promise.resolve().
SubmitAwait ==
    /\ Loop
    /\ nCalls < MaxCalls
    /\ ~(isDaemonReady /\ stdinWritable)
    /\ LET direct == variant = "slot" /\ isDaemonReady /\ daemonProcess # 0
       IN  /\ ~direct => initializationPromise # 0
           /\ \E k \in KeysFor(nCalls + 1) :
                LET c == nCalls + 1
                IN  /\ SetHeap(IF direct
                               THEN [Heap EXCEPT !.micro = Append(@, c)]
                               ELSE Await(Heap, c, initializationPromise))
                    /\ call' = [call EXCEPT ![c] = [st |-> "init", filePath |-> k,
                                                   servedBy |-> 0]]
    /\ nCalls' = nCalls + 1
    /\ UNCHANGED <<appVars, docVars, histVars, variant, sessVars, attached, acceptedLog, envVars, nStarts,
                   nFaults>>

\* The continuation of a fulfilled `await`: the executor of the caller's promise.
Continue ==
    /\ microtasks # <<>>
    /\ LET c == Head(microtasks)
       IN  Executor([Heap EXCEPT !.micro = Tail(@)], c, call[c].filePath)
    /\ UNCHANGED <<appVars, docVars, histVars, variant, sessVars, startupTimeout, immediates, nStarts, nCalls,
                   nFaults>>

\* dispose() that leaves initializationPromise as it is.
disposeKeepsPromise ==
    /\ Loop
    /\ CanFault
    /\ proc' = kill(proc, daemonProcess)
    /\ daemonProcess' = 0
    /\ isDaemonReady' = FALSE
    /\ SetHeap(rejectAllPending(Heap, "disposed"))
    /\ nFaults' = nFaults + 1
    /\ UNCHANGED <<appVars, docVars, histVars, variant, stdoutBuffer, initializationPromise, callVars,
                   startupTimeout, immediates, writeCallbacks, nStarts>>

disposeBody ==
    /\ Loop
    /\ CanFault
    /\ proc' = kill(proc, daemonProcess)
    /\ daemonProcess' = 0
    /\ isDaemonReady' = FALSE
    /\ SetHeap(rejectAllPending(Heap, "disposed"))
    /\ initializationPromise' = 0
    /\ nFaults' = nFaults + 1
    /\ UNCHANGED <<docVars, histVars, variant, stdoutBuffer, callVars, startupTimeout, immediates,
                   writeCallbacks, nStarts>>

dispose == disposeBody /\ UNCHANGED appVars

\* The setTimeout callback of attempt a.
startupTimeoutCallback(a) ==
    /\ Loop
    /\ startupTimeout[a] = "armed"
    /\ startupTimeout' = [startupTimeout EXCEPT ![a] = "fired"]
    /\ IF ~isDaemonReady
       THEN /\ proc' = kill(proc, daemonProcess)
            /\ isDaemonReady' = FALSE
            /\ daemonProcess' = 0
            /\ SetHeap(rejectInitialize(Heap, a, "timeout"))
            /\ initializationPromise' = 0
       ELSE UNCHANGED <<proc, isDaemonReady, daemonProcess, reqVars,
                        initializationPromise>>
    /\ UNCHANGED <<appVars, docVars, histVars, variant, stdoutBuffer, callVars, immediates, writeCallbacks,
                   nStarts>>

\* The ready line is 10 seconds late: one of the faults of a behaviour.
startupTimeoutFires(a) ==
    /\ CanFault
    /\ nFaults' = nFaults + 1
    /\ startupTimeoutCallback(a)

\* The message of the 'error' handler without the test of err.code.
ErrorMessageAlwaysDaemon(code) == "daemonerror"

ErrorMessage(code) == IF code = "ENOENT" THEN "notfound" ELSE "daemonerror"

\* activate and the restart command: errorMessage.includes('not found') ||
\* errorMessage.includes('ENOENT'), over the messages initialize() rejects with.
ShowsInstallHint(reason) == reason = "notfound"

\* daemonProcess.on('error') of the child of attempt p.
onError(p) ==
    /\ microtasks = <<>>
    /\ proc[p].st = "failing"
    /\ proc' = [proc EXCEPT ![p].st = "exited"]
    /\ startupTimeout' = clearTimeout(startupTimeout, p)
    /\ isDaemonReady' = FALSE
    /\ daemonProcess' = 0
    /\ LET msg == ErrorMessage(proc[p].code)
       IN  SetHeap(rejectInitialize(rejectAllPending(Heap, msg), p, msg))
    /\ initializationPromise' = 0
    /\ UNCHANGED <<appVars, docVars, histVars, variant, stdoutBuffer, callVars, immediates, writeCallbacks,
                   nStarts, nFaults>>

\* daemonProcess.on('close') of the child of attempt p: after the child has
\* exited and its stdout has been read to the end.
onClose(p) ==
    /\ Loop
    /\ proc[p].st = "exited"
    /\ proc[p].stdout = <<>>
    /\ proc' = [proc EXCEPT ![p].st = "closed"]
    /\ startupTimeout' = clearTimeout(startupTimeout, p)
    /\ isDaemonReady' = FALSE
    /\ daemonProcess' = 0
    /\ SetHeap(rejectInitialize(rejectAllPending(Heap, "closed"), p, "closed"))
    /\ initializationPromise' = 0
    /\ UNCHANGED <<appVars, docVars, histVars, variant, stdoutBuffer, callVars, immediates, writeCallbacks,
                   nStarts, nFaults>>

\* stdout.on('data') of the child of attempt p, with the first n symbols the
\* child has written.
onStdoutData(p, n) ==
    /\ Loop
    /\ proc[p].st \in {"running", "exited"}
    /\ proc[p].hasStdout
    /\ n \in 1..Len(proc[p].stdout)
    /\ LET data == SubSeq(proc[p].stdout, 1, n)
           hasNewline == \E i \in 1..n : data[i] = NL
       IN  /\ stdoutBuffer' = stdoutBuffer \o data
           /\ immediates' = IF variant = "fifo" \/ hasNewline
                            THEN immediates \cup {p} ELSE immediates
    /\ proc' = [proc EXCEPT ![p].stdout = SubSeq(@, n + 1, Len(@))]
    /\ arrived' = Append(arrived, SubSeq(proc[p].stdout, 1, n))
    /\ framed' = framed
    /\ UNCHANGED <<appVars, docVars, variant, daemonProcess, isDaemonReady, initializationPromise,
                   reqVars, callVars, startupTimeout, writeCallbacks, nStarts,
                   nFaults>>

\* The callback of stdin.write for the line of caller c, reporting an error.
onWriteError(c) ==
    /\ Loop
    /\ c \in writeCallbacks
    /\ writeCallbacks' = writeCallbacks \ {c}
    /\ IF variant = "slot"
       THEN SetHeap(IF currentRequest # 0
                       /\ call[currentRequest].filePath = call[c].filePath
                    THEN [Settle(Heap, currentRequest, Rejected("sendfailed"))
                             EXCEPT !.cur = 0]
                    ELSE Heap)
       ELSE SetHeap(handleFailedRequest(Heap, call[c].filePath))
    /\ UNCHANGED <<appVars, docVars, histVars, variant, sessVars, callVars, proc, startupTimeout, immediates,
                   nStarts, nFaults>>

----------------------------------------------------------------------------
\* The child process (the environment).
\* One reply line per request line, in request order.
WorkerReply(p) ==
    /\ Loop
    /\ proc[p].st = "running"
    /\ proc[p].stdin # <<>>
    /\ proc' = [proc EXCEPT ![p].stdin = Tail(@),
                            ![p].stdout = @ \o <<ResultRec(Head(proc[p].stdin)), NL>>]
    /\ UNCHANGED <<appVars, docVars, histVars, variant, sessVars, reqVars, callVars, startupTimeout, immediates,
                   writeCallbacks, nStarts, nFaults>>

\* The child exits on its own.
WorkerExit(p) ==
    /\ Loop
    /\ proc[p].st = "running"
    /\ CanFault
    /\ nFaults' = nFaults + 1
    /\ proc' = [proc EXCEPT ![p].st = "exited"]
    /\ UNCHANGED <<appVars, docVars, histVars, variant, sessVars, reqVars, callVars, startupTimeout, immediates,
                   writeCallbacks, nStarts>>

Next ==
    \/ initialize
    \/ initializeReturns
    \/ SubmitReady
    \/ SubmitStart
    \/ SubmitAwait
    \/ Continue
    \/ dispose
    \/ \E a \in Attempts : startupTimeoutFires(a)
    \/ \E p \in Attempts : onError(p)
    \/ \E p \in Attempts : onClose(p)
    \/ \E p \in Attempts : onStdoutData(p, Len(proc[p].stdout))
    \/ \E a \in Attempts : Loop /\ processStdoutBuffer(a)
    \/ \E c \in Callers : onWriteError(c)
    \/ \E p \in Attempts : WorkerReply(p)
    \/ \E p \in Attempts : WorkerExit(p)

Spec == Init /\ [][Next]_vars

----------------------------------------------------------------------------
\* The framing of the child's stdout.  The child starts, stays up and answers;
\* between its records it may write white space, text that is not JSON and
\* empty lines; the pipe hands its text to the 'data' handler in chunks of
\* every size.
NoiseSymbols == {SP, Junk, NL}

WorkerNoise(p, s) ==
    /\ Loop
    /\ proc[p].st = "running"
    /\ CanFault
    /\ nFaults' = nFaults + 1
    /\ proc' = [proc EXCEPT ![p].stdout = Append(@, s)]
    /\ UNCHANGED <<appVars, docVars, histVars, variant, sessVars, reqVars, callVars, startupTimeout,
                   immediates, writeCallbacks, nStarts>>

FrameNext ==
    \/ initialize /\ nFaults' = nFaults
    \/ SubmitReady /\ nCalls < FrameCalls
    \/ \E p \in Attempts : WorkerReply(p)
    \/ \E p \in Attempts, s \in NoiseSymbols : WorkerNoise(p, s)
    \/ \E p \in Attempts : \E n \in 1..Len(proc[p].stdout) : onStdoutData(p, n)
    \/ \E a \in Attempts : Loop /\ processStdoutBuffer(a)

FrameSpec == Init /\ [][FrameNext]_vars

\* The same, with a child that may answer a request with a reply whose
\* `errors` field is not a list of strings.
WorkerReplyBadErrors(p) ==
    /\ Loop
    /\ proc[p].st = "running"
    /\ proc[p].stdin # <<>>
    /\ CanFault
    /\ nFaults' = nFaults + 1
    /\ proc' = [proc EXCEPT ![p].stdin = Tail(@),
                            ![p].stdout = @ \o <<BadErrorsRec(Head(proc[p].stdin)), NL>>]
    /\ UNCHANGED <<appVars, docVars, histVars, variant, sessVars, reqVars, callVars, startupTimeout,
                   immediates, writeCallbacks, nStarts>>

ReplyNext ==
    \/ FrameNext
    \/ \E p \in Attempts : WorkerReplyBadErrors(p)

ReplySpec == Init /\ [][ReplyNext]_vars

----------------------------------------------------------------------------
\* The class: `new TgsParser(outputChannel)`.  this is the object the
\* expression allocates; the constructor returns TgsParser.instance when that
\* is set, and otherwise stores this there.  The session's fields are those
\* of the instance.

\* new TgsParser(outputChannel) that returns the new object every time.
constructorAlwaysNew ==
    LET this == Len(constructed) + 1
    IN  /\ Len(constructed) < MaxObjects
        /\ instance' = this
        /\ constructed' = Append(constructed, this)
        /\ UNCHANGED <<parserVars, docVars, escVars, debVars, extVars>>

constructor ==
    LET this == Len(constructed) + 1
    IN  /\ Len(constructed) < MaxObjects
        /\ IF instance # 0
           THEN /\ constructed' = Append(constructed, instance)
                /\ UNCHANGED instance
           ELSE /\ instance' = this
                /\ constructed' = Append(constructed, this)
        /\ UNCHANGED <<parserVars, docVars, escVars, debVars, extVars>>

\* The extension before activate(): no object yet.  The session is used
\* through an object the constructor has returned.
InstanceInit ==
    /\ SessionInit
    /\ instance = 0 /\ constructed = <<>>
    /\ NoErrorText
    /\ NoDebounce
    /\ Dormant
    /\ errors = <<>>
    /\ lineCount = 1
    /\ validation = "idle"
    /\ diagnosticCollection = <<>>

InstanceNext ==
    \/ constructor
    \/ constructed # <<>> /\ initialize
    \/ constructed # <<>> /\ SubmitStart
    \/ constructed # <<>> /\ SubmitAwait
    \/ constructed # <<>> /\ Continue
    \/ constructed # <<>> /\ dispose
    \/ \E a \in Attempts : constructed # <<>> /\ startupTimeoutFires(a)
    \/ \E p \in Attempts : constructed # <<>> /\ onError(p)
    \/ \E p \in Attempts : constructed # <<>> /\ onClose(p)
    \/ \E p \in Attempts : constructed # <<>> /\ onStdoutData(p, Len(proc[p].stdout))
    \/ \E a \in Attempts : constructed # <<>> /\ Loop /\ processStdoutBuffer(a)
    \/ \E p \in Attempts : constructed # <<>> /\ WorkerExit(p)

InstanceSpec == InstanceInit /\ [][InstanceNext]_vars

----------------------------------------------------------------------------
\* processErrors.  An error string is a sequence of tokens: the characters
\* '<', '>', "'" and the backslash, the texts u003C, u003E, u0027 and SPACE,
\* and "x" for any other character.  The six characters \u003C are the
\* backslash followed by u003C.
Backslash == "bs"
EscLess == <<Backslash, "u003C">>
EscGreater == <<Backslash, "u003E">>
EscQuote == <<Backslash, "u0027">>
MessageChars == {"<", ">", "'", "SPACE", "x"}
WireChars == {"<", ">", "'", "SPACE", Backslash, "u003C", "u003E", "u0027"}

\* The worker's escapes, as the replacements table reverses them.
EncodeChar(ch) ==
    IF ch = "<" THEN EscLess
    ELSE IF ch = ">" THEN EscGreater
    ELSE IF ch = "'" THEN EscQuote
    ELSE <<ch>>

RECURSIVE Encode(_)
Encode(s) == IF s = <<>> THEN <<>> ELSE EncodeChar(Head(s)) \o Encode(Tail(s))

\* String.prototype.replace with a regex without the g flag: the first match.
ReplaceFirst(s, pat, by) ==
    LET hits == {i \in 1..(Len(s) - Len(pat) + 1) : SubSeq(s, i, i + Len(pat) - 1) = pat}
    IN  IF hits = {} THEN s
        ELSE LET i == CHOOSE j \in hits : \A m \in hits : j <= m
             IN  SubSeq(s, 1, i - 1) \o by \o SubSeq(s, i + Len(pat), Len(s))

\* processedError.replace(regex, replacement) with a /.../g regex: every
\* match, from the left, the search going on after the match.
RECURSIVE ReplaceAll(_, _, _)
ReplaceAll(s, pat, by) ==
    IF Len(s) < Len(pat) THEN s
    ELSE IF SubSeq(s, 1, Len(pat)) = pat
    THEN by \o ReplaceAll(SubSeq(s, Len(pat) + 1, Len(s)), pat, by)
    ELSE <<Head(s)>> \o ReplaceAll(Tail(s), pat, by)

replacements ==
    << <<EscLess \o <<"SPACE">> \o EscGreater, <<"<", "SPACE", ">">> >>,
       <<EscLess, <<"<">> >>,
       <<EscGreater, <<">">> >>,
       <<EscQuote, <<"'">> >> >>

RECURSIVE ApplyReplacements(_, _)
ApplyReplacements(s, table) ==
    IF table = <<>> THEN s
    ELSE ApplyReplacements(ReplaceAll(s, Head(table)[1], Head(table)[2]), Tail(table))

\* The body of errors.map(...): one error string.
processError(error) == ApplyReplacements(error, replacements)

MessageStrings == UNION {[1..n -> MessageChars] : n \in 0..MaxMessage}
WireStrings == UNION {[1..n -> WireChars] : n \in 0..MaxWire}

\* The worker escapes an error message and sends it; or any text arrives.
EscapesInit ==
    /\ SessionInit
    /\ Constructed
    /\ errors = <<>>
    /\ lineCount = 1
    /\ validation = "idle"
    /\ diagnosticCollection = <<>>
    /\ NoDebounce
    /\ Dormant
    /\ \/ original \in MessageStrings /\ wire = Encode(original)
       \/ original = <<>> /\ wire \in WireStrings
    /\ decoded = <<>>

\* processErrors, and processErrors on its own result.
processErrors ==
    /\ Len(decoded) < 2
    /\ decoded' = Append(decoded, processError(IF decoded = <<>> THEN wire
                                                ELSE decoded[Len(decoded)]))
    /\ UNCHANGED <<parserVars, docVars, instance, constructed, original, wire, debVars,
                   extVars>>

EscapesSpec == EscapesInit /\ [][processErrors]_vars

----------------------------------------------------------------------------
\* TgsDiagnosticProvider: the debounce of validateDocument.  A timer is named
\* by its place in timeouts.
Armed(t) == timeouts[t].st = "armed"

\* clearTimeout(timeout): a timer that is armed will not fire.
clearTimer(ts, t) ==
    IF t # 0 /\ ts[t].st = "armed" THEN [ts EXCEPT ![t].st = "cleared"] ELSE ts

\* The `if (existingTimeout)` block that clears nothing.
cancelNothing(ts, uri) == ts

\* const existingTimeout = this.validationTimeout.get(uri);
\* if (existingTimeout) { clearTimeout(existingTimeout); ...delete(uri) }
cancelPending(ts, uri) == clearTimer(ts, validationTimeout[uri])

\* doValidation() up to its await: one parser.parseFile call.
doValidationStarts(uri) ==
    /\ parses[uri] < MaxParses
    /\ parses' = [parses EXCEPT ![uri] = @ + 1]

\* validateDocument(document) from a text change: debounced.
validateDebounced(uri) ==
    /\ Len(timeouts) < MaxTimers
    /\ timeouts' = Append(cancelPending(timeouts, uri), [uri |-> uri, st |-> "armed"])
    /\ validationTimeout' = [validationTimeout EXCEPT ![uri] = Len(timeouts) + 1]
    /\ UNCHANGED <<parserVars, docVars, instance, constructed, escVars, extVars, parses,
                   providerDisposed>>

\* validateDocument(document, true): on save, at activation, after a restart.
validateImmediate(uri) ==
    /\ timeouts' = cancelPending(timeouts, uri)
    /\ validationTimeout' = [validationTimeout EXCEPT ![uri] = 0]
    /\ doValidationStarts(uri)
    /\ UNCHANGED <<parserVars, docVars, instance, constructed, escVars, extVars,
                   providerDisposed>>

\* The debounce timer t fires: doValidation runs; the map keeps its entry.
validationTimeoutFires(t) ==
    /\ t \in 1..Len(timeouts)
    /\ Armed(t)
    /\ timeouts' = [timeouts EXCEPT ![t].st = "fired"]
    /\ doValidationStarts(timeouts[t].uri)
    /\ UNCHANGED <<parserVars, docVars, instance, constructed, escVars, extVars,
                   validationTimeout, providerDisposed>>

\* TgsDiagnosticProvider.dispose(): every timer of the map is cleared and the
\* map is emptied.
RECURSIVE clearEach(_, _)
clearEach(ts, uris) ==
    IF uris = {} THEN ts
    ELSE LET u == CHOOSE x \in uris : TRUE
         IN  clearEach(clearTimer(ts, validationTimeout[u]), uris \ {u})

providerDispose ==
    /\ ~providerDisposed
    /\ providerDisposed' = TRUE
    /\ timeouts' = clearEach(timeouts, Uris)
    /\ validationTimeout' = [u \in Uris |-> 0]
    /\ UNCHANGED <<parserVars, docVars, instance, constructed, escVars, extVars, parses>>

DebounceNext ==
    \/ \E u \in Uris : validateDebounced(u)
    \/ \E u \in Uris : validateImmediate(u)
    \/ \E t \in 1..MaxTimers : validationTimeoutFires(t)
    \/ providerDispose

DebounceSpec == Init /\ [][DebounceNext]_vars

----------------------------------------------------------------------------
\* The extension: activate() and the 'typegen.restartTypegenServer' command.
\* The documents open in the editor are those of Uris.
otherAppVars == <<instance, constructed, escVars, debVars>>

\* activate() up to `await parser.initialize()`.
activate ==
    /\ activation = "idle"
    /\ initializeBody
    /\ activation' = "awaiting"
    /\ UNCHANGED <<otherAppVars, diagnosticProvider, restart, revalidated>>

\* activate() after the await: the catch returns; otherwise the provider is
\* made and the handlers are registered.
activateContinues ==
    /\ activation = "awaiting"
    /\ promise[1] # "pending"
    /\ IF promise[1] = "resolved"
       THEN activation' = "complete" /\ diagnosticProvider' = TRUE
       ELSE activation' = "failed" /\ UNCHANGED diagnosticProvider
    /\ UNCHANGED <<parserVars, docVars, otherAppVars, restart, revalidated>>

\* The command: parser.dispose(), then parser.initialize() in the same
\* callback, then the await.
restartDisposes ==
    /\ activation \in {"failed", "complete"}
    /\ restart.st \in {"idle", "restarted", "failed"}
    /\ nStarts < MaxStarts
    /\ nStarts + nFaults + 1 < MaxEvents
    /\ disposeBody
    /\ restart' = [st |-> "disposed", a |-> 0]
    /\ revalidated' = {}
    /\ UNCHANGED <<otherAppVars, activation, diagnosticProvider>>

restartInitializes ==
    /\ restart.st = "disposed"
    /\ initializeBody
    /\ restart' = [st |-> "awaiting", a |-> nStarts + 1]
    /\ UNCHANGED <<otherAppVars, activation, diagnosticProvider, revalidated>>

\* The command after the await: the loop over the open documents calls
\* validateDocument(doc, true) `if (diagnosticProvider)`; the catch logs.
restartContinues ==
    /\ restart.st = "awaiting"
    /\ promise[restart.a] # "pending"
    /\ IF promise[restart.a] = "resolved"
       THEN /\ restart' = [restart EXCEPT !.st = "restarted"]
            /\ revalidated' = IF diagnosticProvider THEN Uris ELSE {}
       ELSE /\ restart' = [restart EXCEPT !.st = "failed"]
            /\ UNCHANGED revalidated
    /\ UNCHANGED <<parserVars, docVars, otherAppVars, activation, diagnosticProvider>>

\* The command's callback is between its dispose() and its initialize().
InRestart == restart.st = "disposed"

ActivationNext ==
    \/ activate
    \/ activateContinues
    \/ restartDisposes
    \/ restartInitializes
    \/ restartContinues
    \/ \E a \in Attempts : ~InRestart /\ startupTimeoutFires(a)
    \/ \E p \in Attempts : ~InRestart /\ onError(p)
    \/ \E p \in Attempts : ~InRestart /\ onClose(p)
    \/ \E p \in Attempts : ~InRestart /\ onStdoutData(p, Len(proc[p].stdout))
    \/ \E a \in Attempts : ~InRestart /\ Loop /\ processStdoutBuffer(a)
    \/ \E p \in Attempts : ~InRestart /\ WorkerExit(p)

ActivationSpec == Init /\ [][ActivationNext]_vars

----------------------------------------------------------------------------
\* The starts of the session under the scheduling of the event loop: a timer
\* that is armed fires, a process.nextTick and a setImmediate callback run, a
\* child that was killed or has failed has its stdout read to the end and emits
\* 'close'.  What a running child writes, and when, is up to the child.
TimerDue(a) == startupTimeoutCallback(a) /\ UNCHANGED nFaults
DrainExited(p) == proc[p].st = "exited" /\ onStdoutData(p, Len(proc[p].stdout))
RunImmediate(a) == Loop /\ processStdoutBuffer(a)

LiveNext ==
    \/ initialize
    \/ dispose
    \/ \E a \in Attempts : TimerDue(a)
    \/ \E p \in Attempts : onError(p)
    \/ \E p \in Attempts : onClose(p)
    \/ \E p \in Attempts : onStdoutData(p, Len(proc[p].stdout))
    \/ \E a \in Attempts : RunImmediate(a)

LiveSpec ==
    /\ Init
    /\ [][LiveNext]_vars
    /\ \A a \in Attempts :
          /\ WF_vars(TimerDue(a))
          /\ WF_vars(onError(a))
          /\ WF_vars(onClose(a))
          /\ WF_vars(DrainExited(a))
          /\ WF_vars(RunImmediate(a))

----------------------------------------------------------------------------
\* Diagnostics.  An error string of the worker is a sequence of symbols: the
\* digits 0 and 3, the minus sign, a letter, and the delimiter '<SPACE>'.
Delim == "<SPACE>"
Digits == {"0", "3"}
ErrorChars == Digits \cup {"-", "m", Delim}
DigitValue(d) == IF d = "0" THEN 0 ELSE 3

\* error.split('<SPACE>'): the pieces between the delimiters.
RECURSIVE SplitAll(_, _, _)
SplitAll(s, pieces, piece) ==
    IF s = <<>> THEN Append(pieces, piece)
    ELSE IF Head(s) = Delim THEN SplitAll(Tail(s), Append(pieces, piece), <<>>)
    ELSE SplitAll(Tail(s), pieces, Append(piece, Head(s)))

\* error.split('<SPACE>', 2): the limit keeps the first two pieces and drops
\* the others.
SplitLimit2(s) ==
    LET all == SplitAll(s, <<>>, <<>>)
    IN  SubSeq(all, 1, IF Len(all) < 2 THEN Len(all) ELSE 2)

\* parseInt(str, 10): an optional sign and the longest run of digits after it;
\* NaN when there is no digit.
RECURSIVE ParseDigits(_, _, _)
ParseDigits(s, acc, any) ==
    IF s = <<>> \/ Head(s) \notin Digits
    THEN [nan |-> ~any, n |-> acc]
    ELSE ParseDigits(Tail(s), 10 * acc + DigitValue(Head(s)), TRUE)

parseInt(s) ==
    IF s # <<>> /\ Head(s) = "-"
    THEN [ParseDigits(Tail(s), 0, FALSE) EXCEPT !.n = 0 - @]
    ELSE ParseDigits(s, 0, FALSE)

Max(a, b) == IF a > b THEN a ELSE b
Min(a, b) == IF a < b THEN a ELSE b

\* The line without the lower limit.
ClampLineAbove(parsedLine, lines) == Min(parsedLine - 1, lines - 1)

\* Math.max(0, Math.min(parsedLine - 1, lineCount - 1))
ClampLine(parsedLine, lines) == Max(0, Min(parsedLine - 1, lines - 1))

\* new vscode.Range(0, 0, 0, 1), and the range from the first non-blank
\* character of a line to its end.
GenericRange == [line |-> 0, extent |-> "first character"]
LineRange(line) == [line |-> line, extent |-> "text of the line"]
Diagnostic(range, message) == [range |-> range, message |-> message]

\* The body of the loop over the errors.
ErrorToDiagnostic(error, lines) ==
    LET parts == SplitLimit2(error)
    IN  IF Len(parts) # 2 THEN Diagnostic(GenericRange, error)
        ELSE LET parsedLine == parseInt(parts[1])
             IN  IF parsedLine.nan THEN Diagnostic(GenericRange, error)
                 ELSE Diagnostic(LineRange(ClampLine(parsedLine.n, lines)), parts[2])

parseErrorsToDiagnostics(errs, lines) ==
    [i \in 1..Len(errs) |-> ErrorToDiagnostic(errs[i], lines)]

\* The reasons a parse request is rejected with.
Reasons == {"cancelled", "sendfailed", "closed", "disposed", "timeout"}

\* The catch of doValidation that sets nothing.
CatchSetsNothing(reason) == <<>>

\* The catch of doValidation: `Validation failed: ${error.message}`.
ValidationFailed(reason) == <<"Validation failed: ", reason>>
CatchDiagnostics(reason) == <<Diagnostic(GenericRange, ValidationFailed(reason))>>

\* validateDocument(document, true): doValidation() calls parser.parseFile and
\* awaits its promise.
validateDocument ==
    /\ validation # "awaiting"
    /\ validation' = "awaiting"
    /\ UNCHANGED <<appVars, parserVars, errors, lineCount, diagnosticCollection>>

\* The promise resolved with a result: success, or the errors of the reply.
doValidationResolved(success) ==
    /\ validation = "awaiting"
    /\ validation' = "done"
    /\ diagnosticCollection' =
          IF ~success /\ Len(errors) > 0
          THEN parseErrorsToDiagnostics(errors, lineCount)
          ELSE <<>>
    /\ UNCHANGED <<appVars, parserVars, errors, lineCount>>

\* The promise was rejected: the catch.
doValidationRejected(reason) ==
    /\ validation = "awaiting"
    /\ validation' = "done"
    /\ diagnosticCollection' = CatchDiagnostics(reason)
    /\ UNCHANGED <<appVars, parserVars, errors, lineCount>>

\* The replies and documents of the diagnostics: at most two error strings of
\* MaxText symbols together, and a document of 1 to MaxLines lines.
ErrorStrings == UNION {[1..n -> ErrorChars] : n \in 0..MaxText}
ErrorLists ==
    {<<>>} \cup {<<e>> : e \in ErrorStrings}
           \cup {es \in ErrorStrings \X ErrorStrings : Len(es[1]) + Len(es[2]) <= MaxText}

DiagInit ==
    /\ SessionInit
    /\ Constructed
    /\ NoErrorText
    /\ NoDebounce
    /\ Dormant
    /\ errors \in ErrorLists
    /\ lineCount \in 1..MaxLines
    /\ validation = "idle"
    /\ diagnosticCollection = <<>>

DiagNext ==
    \/ validateDocument
    \/ \E success \in BOOLEAN : doValidationResolved(success)
    \/ \E reason \in Reasons : doValidationRejected(reason)

DiagSpec == DiagInit /\ [][DiagNext]_vars

----------------------------------------------------------------------------
\* Vocabulary of the properties.
IsSlot == variant = "slot"
IsFifo == variant = "fifo"
Last(s) == s[Len(s)]
InSeq(x, s) == \E i \in 1..Len(s) : s[i] = x
Pos(x, s) == CHOOSE i \in 1..Len(s) : s[i] = x
Before(x, y, s) == InSeq(x, s) /\ InSeq(y, s) /\ Pos(x, s) < Pos(y, s)

\* Caller c holds an unsettled promise that the session's tables can still
\* reach: the slot, or a queue entry or one of the wrappers added to it.
PendingNow(c) ==
    /\ outcome[c].kind = "none"
    /\ IF IsSlot THEN currentRequest = c
       ELSE \E i \in 1..Len(requestQueue) :
               requestQueue[i] = c \/ InSeq(c, attached[requestQueue[i]])

\* Caller c made its own wire request (it did not join another caller's entry).
OwnEntry(c) == call[c].st = "sent" /\ call[c].servedBy = c

\* Request lines child p has not answered yet, and replies not yet read from it.
Replies(p) ==
    Cardinality({i \in 1..Len(proc[p].stdout) : proc[p].stdout[i].t = "res"})
Outstanding(p) == Len(proc[p].stdin) + Replies(p)

\* What happens without any new call, crash or dispose(): the callbacks that
\* are due, and the child answering the lines it has been sent.
Progress ==
    \/ Continue
    \/ \E p \in Attempts : onError(p)
    \/ \E p \in Attempts : onClose(p)
    \/ \E p \in Attempts : onStdoutData(p, Len(proc[p].stdout))
    \/ \E a \in Attempts : Loop /\ processStdoutBuffer(a)
    \/ \E c \in Callers : onWriteError(c)
    \/ \E p \in Attempts : WorkerReply(p)

\* Nothing is left to happen: no callback is due, no child owes a reply or a
\* 'close', and no startup timer is armed.
Quiet == ~ENABLED Progress /\ \A a \in Attempts : startupTimeout[a] # "armed"

\* A start attempt is in progress: its promise is pending and its child lives.
InProgress(a) == promise[a] = "pending" /\ proc[a].st = "running"

----------------------------------------------------------------------------
\* C1: every caller promise that is resolved is resolved with the worker's
\* reply to the request line written for that caller (for a caller that joined
\* a queue entry: the line of that entry), in both parser variants.
RepliesRoutedToOwnRequest ==
    \A c \in Callers : outcome[c].kind = "ok" => outcome[c].reply = call[c].servedBy

\* C2: in both variants a live child never has more than one request line
\* whose reply has not been received.
AtMostOneOutstanding ==
    \A p \in Attempts : proc[p].st = "running" => Outstanding(p) <= 1

\* C3: every submission ends with an outcome: once nothing is left to happen
\* (every due callback has run, every line written has been answered, every
\* killed child has closed, no timer is armed), no caller is still waiting.
NoSubmissionLeftWaiting ==
    Quiet => \A c \in Callers : call[c].st # "new" => outcome[c].kind # "none"

\* C4: slot parser: a request accepted while currentRequest is set rejects the
\* earlier request with 'Request cancelled - newer request' (if it is still
\* unsettled) and leaves the new request as currentRequest, the only request
\* that can still be pending.
SupersedeCancelsEarlier ==
    [][(IsSlot /\ acceptedLog' # acceptedLog /\ currentRequest # 0) =>
         (/\ currentRequest' = Last(acceptedLog')
          /\ (outcome[currentRequest].kind = "none" =>
                 outcome'[currentRequest] = Rejected("cancelled"))
          /\ \A d \in Callers :
                (d # Last(acceptedLog') /\ call[d].st = "sent") => outcome'[d].kind # "none")
      ]_vars

\* A request was superseded while it was pending, and the newer one is pending.
SupersededWhilePending ==
    /\ IsSlot
    /\ currentRequest # 0
    /\ outcome[currentRequest].kind = "none"
    /\ \E c \in Callers : c # currentRequest /\ outcome[c] = Rejected("cancelled")

\* C5: fifo parser: a parseFile(key) accepted while the entry of that key is
\* queued and unsettled writes nothing, adds no queue entry and attaches to the
\* entry; and whenever an entry's promise settles, every caller attached to it
\* settles in the same step with the same result or the same rejection.
DuplicateJoinsEntry ==
    [][IsFifo =>
         /\ (acceptedLog' # acceptedLog =>
               LET c == Last(acceptedLog')
                   x == pendingRequests[call'[c].filePath]
               IN  (x # 0 /\ outcome[x].kind = "none") =>
                     (/\ InSeq(x, requestQueue)
                      /\ proc' = proc /\ writeCallbacks' = writeCallbacks
                      /\ requestQueue' = requestQueue
                      /\ attached' = [attached EXCEPT ![x] = Append(@, c)]
                      /\ outcome'[c].kind = "none"))
         /\ \A x \in Callers :
               (outcome[x].kind = "none" /\ outcome'[x].kind # "none") =>
                  \A i \in 1..Len(attached[x]) : outcome'[attached[x][i]] = outcome'[x]
      ]_vars

\* A caller joined a pending entry and both got the reply to the entry's line.
JoinedCallerResolved ==
    /\ IsFifo
    /\ \E c \in Callers :
          /\ call[c].st = "sent" /\ call[c].servedBy # c
          /\ outcome[c] = Resolved(call[c].servedBy)
          /\ outcome[call[c].servedBy] = outcome[c]

\* C6 as stated: fifo parser, A accepted before B with different keys: when B's
\* promise has resolved, A's has settled before it.
FifoOrderOfSubmissions ==
    IsFifo => \A A, B \in Callers :
        (/\ Before(A, B, acceptedLog)
         /\ call[A].filePath # call[B].filePath
         /\ outcome[B].kind = "ok")
        => Before(A, B, settledLog)

\* C6, amended: the order holds between requests that made their own queue
\* entry; a request that joined an entry settles with that entry.
FifoOrderOfEntries ==
    IsFifo => \A A, B \in Callers :
        (/\ Before(A, B, acceptedLog)
         /\ call[A].filePath # call[B].filePath
         /\ OwnEntry(A) /\ OwnEntry(B)
         /\ outcome[B].kind = "ok")
        => Before(A, B, settledLog)

\* Two queued requests of different keys were both answered.
TwoEntriesResolved ==
    /\ IsFifo
    /\ \E A, B \in Callers :
          /\ Before(A, B, acceptedLog)
          /\ call[A].filePath # call[B].filePath
          /\ OwnEntry(A) /\ OwnEntry(B)
          /\ outcome[A].kind = "ok" /\ outcome[B].kind = "ok"

\* C7: a 'close' or 'error' event of a child leaves the session not ready with
\* no process handle and no initializationPromise, rejects every pending
\* request and every caller awaiting that child's start with the failure's
\* message, and a submit made while the handle and the initializationPromise
\* are null starts a new attempt.
ProcessFailureRejectsPending ==
    [][/\ \A p \in Attempts : \A msg \in {"closed", "notfound", "daemonerror"} :
            ((msg = "closed" /\ onClose(p))
               \/ (msg = ErrorMessage(proc[p].code) /\ onError(p)))
            => (/\ ~isDaemonReady' /\ daemonProcess' = 0 /\ initializationPromise' = 0
                /\ currentRequest' = 0 /\ requestQueue' = <<>>
                /\ \A c \in Callers :
                      (PendingNow(c) \/ InSeq(c, waiters[p])) => outcome'[c] = Rejected(msg))
       /\ (nCalls' = nCalls + 1 /\ daemonProcess = 0 /\ initializationPromise = 0)
            => (/\ nStarts' = nStarts + 1
                /\ initializationPromise' = nStarts'
                /\ promise'[nStarts'] # "none")
      ]_vars

\* The child exited with two requests pending, both were rejected, and the next
\* submit started a second child.
TwoRejectedThenRestart ==
    /\ IsFifo
    /\ OwnEntry(1) /\ OwnEntry(2)
    /\ outcome[1] = Rejected("closed") /\ outcome[2] = Rejected("closed")
    /\ call[3].st = "init"
    /\ daemonProcess = 2 /\ proc[2].st = "running"

\* C8: single-flight startup: at most one start attempt is in progress at any
\* time (no second child is spawned while one is starting).
SingleFlightStartup ==
    Cardinality({a \in Attempts : InProgress(a)}) <= 1

\* C9: when the startup timer of attempt a fires and no ready record has been
\* processed, the child of attempt a is killed, the session is not ready and
\* holds no handle, the promise of attempt a is rejected with the timeout error
\* and initializationPromise is null, so that a later initialize() starts anew.
StartupTimeoutKillsChild ==
    [][\A a \in Attempts : (startupTimeoutFires(a) /\ ~isDaemonReady) =>
          (/\ proc'[a].st # "running"
           /\ ~isDaemonReady' /\ daemonProcess' = 0 /\ initializationPromise' = 0
           /\ promise'[a] = "timeout")
      ]_vars

\* C10: dispose() kills the child the session holds, rejects every pending
\* request with 'Typegen daemon disposed.', and leaves no request pending, the
\* session not ready and the handle null.
DisposeRejectsPending ==
    [][dispose =>
          (/\ (daemonProcess # 0 => proc'[daemonProcess].st # "running")
           /\ \A c \in Callers : PendingNow(c) => outcome'[c] = Rejected("disposed")
           /\ \A c \in Callers : ~PendingNow(c)'
           /\ currentRequest' = 0 /\ requestQueue' = <<>>
           /\ \A k \in Keys : pendingRequests'[k] = 0
           /\ ~isDaemonReady' /\ daemonProcess' = 0)
      ]_vars

\* dispose() ran on a ready session with a request pending.
DisposedWithPending ==
    /\ \E c \in Callers : outcome[c] = Rejected("disposed")
    /\ daemonProcess = 0 /\ ~isDaemonReady
    /\ \E p \in Attempts : proc[p].st = "exited" /\ proc[p].stdin # <<>>

\* The start attempt a has failed: its promise is rejected.
StartFailed(a) == promise[a] \notin {"none", "pending", "resolved"}

\* No request is in the session's tables.
NothingPending ==
    /\ currentRequest = 0
    /\ requestQueue = <<>>
    /\ \A k \in Keys : pendingRequests[k] = 0

\* The fields of a session that was never started.
ColdSession ==
    /\ daemonProcess = 0
    /\ ~isDaemonReady
    /\ initializationPromise = 0
    /\ stdoutBuffer = <<>>
    /\ NothingPending

\* C11: dispose() leaves every field of the session (process handle, ready
\* flag, pending requests, initializationPromise, stdoutBuffer) as in a session
\* that was never started.
DisposeResetsSession ==
    [][dispose => ColdSession']_vars

\* C12: no failure leaves the session holding the rejected promise of a failed
\* start: once the callbacks that are due have run, initializationPromise is
\* null, pending or resolved, so that a later initialize() or submit starts a
\* new attempt instead of returning the earlier failure.
FailureAllowsRestart ==
    (Loop /\ initializationPromise # 0) => ~StartFailed(initializationPromise)

\* C13: isDaemonReady turns true only in a processStdoutBuffer step whose
\* buffer holds a complete line that decodes to the ready record.
ReadyOnlyFromReadyRecord ==
    [][(~isDaemonReady /\ isDaemonReady') =>
          /\ \E a \in Attempts : processStdoutBuffer(a)
          /\ \E i \in 1..Len(Split(stdoutBuffer).lines) :
                /\ Decodes(Split(stdoutBuffer).lines[i])
                /\ Record(Split(stdoutBuffer).lines[i]) = ReadyRec
      ]_vars

\* The session became ready after its child's ready line was processed.
ReadyAfterReadyRecord ==
    /\ isDaemonReady
    /\ daemonProcess # 0
    /\ promise[daemonProcess] = "resolved"
    /\ startupTimeout[daemonProcess] = "cleared"

\* A cold start that met no fault has answered its only request: one child,
\* one call, every line written has been answered and every reply processed.
ColdStartAnswered ==
    /\ nStarts = 1 /\ nFaults = 0 /\ nCalls = 1
    /\ call[1].st = "sent"
    /\ proc[1].stdin = <<>> /\ proc[1].stdout = <<>>
    /\ stdoutBuffer = <<>> /\ immediates = {}

\* C14: a submit made while isDaemonReady is false writes and enqueues nothing
\* in that step and leaves an initializationPromise to await (starting the
\* daemon if there was none); a request is enqueued and written only in a step
\* that finds isDaemonReady true; and a cold start without faults resolves its
\* caller with the reply to its line.
SubmitWaitsForReady ==
    [][/\ (nCalls' = nCalls + 1 /\ ~isDaemonReady) =>
            (/\ acceptedLog' = acceptedLog
             /\ requestQueue' = requestQueue /\ currentRequest' = currentRequest
             /\ \A p \in Attempts : proc'[p].stdin = proc[p].stdin
             /\ call'[nCalls'].st = "init"
             /\ initializationPromise' # 0
             /\ initializationPromise = 0 => nStarts' = nStarts + 1)
       /\ (acceptedLog' # acceptedLog) => isDaemonReady
       /\ ColdStartAnswered' => outcome'[1] = Resolved(1)
      ]_vars

\* A submit on a session that was never started has started the daemon and
\* waits for its ready line.
SubmitStartedDaemon ==
    /\ nStarts = 1 /\ nCalls = 1 /\ nFaults = 0
    /\ call[1].st = "init"
    /\ waiters[1] = <<1>>
    /\ promise[1] = "pending" /\ proc[1].st = "running"
    /\ ~isDaemonReady

\* The write of caller c's line threw (the handle was null).
WriteThrew(c) == outcome[c] = Rejected("typeerror")

\* C15: a request whose write failed does not stay in the pending state: when
\* the write callback of caller c reports an error, c ends settled and out of
\* the slot and the queue, and no request but c's is settled (in the fifo
\* parser: c's entry with the callers attached to it); and a request whose
\* write threw is in neither the slot nor the queue.
WriteFailureRejectsThatRequest ==
    [][/\ \A c \in Callers : onWriteError(c) =>
            (/\ outcome'[c].kind # "none"
             /\ currentRequest' # c /\ ~InSeq(c, requestQueue')
             /\ \A d \in Callers :
                   (d # c /\ ~InSeq(d, attached[c])) => outcome'[d] = outcome[d])
       /\ \A c \in Callers :
             WriteThrew(c)' => (currentRequest' # c /\ ~InSeq(c, requestQueue'))
      ]_vars

\* C16: the continuations of a request are invoked once: every step that takes
\* a request out of the slot or out of the queue (to resolve or reject it) finds
\* its promise unsettled.
ContinuationsConsumedOnce ==
    [][/\ (currentRequest # 0 /\ currentRequest' # currentRequest) =>
             outcome[currentRequest].kind = "none"
       /\ \A x \in Callers :
             (InSeq(x, requestQueue) /\ ~InSeq(x, requestQueue')) =>
                outcome[x].kind = "none"
      ]_vars

\* C19: initialize() on a ready session (isDaemonReady with a process handle)
\* spawns nothing and changes nothing: the handle, the ready flag, the buffer,
\* initializationPromise, the requests, the children and their timers stay as
\* they are, so that repeated calls leave the one child there is.
InitializeIdempotentWhenReady ==
    [][((initialize \/ initializeReturns) /\ isDaemonReady /\ daemonProcess # 0) =>
          UNCHANGED <<sessVars, reqVars, envVars, nStarts>>
      ]_vars

\* A ready session with its one child running, on which initialize() can be
\* called.
ReadyWithOneChild ==
    /\ isDaemonReady /\ daemonProcess = 1 /\ nStarts = 1
    /\ proc[1].st = "running"
    /\ ENABLED initializeReturns

\* What dispose() establishes: no handle, not ready, no start promise, nothing
\* pending.
Disposed ==
    /\ daemonProcess = 0
    /\ ~isDaemonReady
    /\ initializationPromise = 0
    /\ NothingPending

\* C20: dispose() is idempotent: every dispose() ends in a state with no
\* handle, not ready, no start promise and nothing pending, and a dispose()
\* called in such a state changes nothing: it kills nothing and rejects nothing.
DisposeIdempotent ==
    [][dispose =>
          (/\ Disposed'
           /\ Disposed => UNCHANGED <<sessVars, reqVars, callVars, envVars, nStarts>>)
      ]_vars

\* dispose() was called twice in a row.
DisposedTwice ==
    /\ nFaults = 2 /\ nStarts = 0
    /\ Disposed

----------------------------------------------------------------------------
\* A complete line that JSON.parse throws on.
Malformed(line) == ~Blank(line) /\ ~Decodes(line)
Wellformed(line) == ~Malformed(line)

\* C17: a line that fails to decode settles no caller and leaves the pending
\* requests, the ready flag and the process handle as they were, and the lines
\* after it in the same buffer are still processed: a processStdoutBuffer step
\* has the effect of processing the buffer's other lines alone, and none of
\* these when no line of the buffer decodes.
MalformedRecordDiscarded ==
    [][\A a \in Attempts :
          (Loop /\ processStdoutBuffer(a)) =>
              LET lines == Split(stdoutBuffer).lines
                  S == ProcessLines([H |-> Heap, ready |-> isDaemonReady,
                                     timers |-> startupTimeout],
                                    SelectSeq(lines, Wellformed), a)
              IN  /\ ((\A i \in 1..Len(lines) : ~Decodes(lines[i])) =>
                         UNCHANGED <<outcome, settledLog, currentRequest,
                                     requestQueue, pendingRequests, attached,
                                     isDaemonReady, daemonProcess,
                                     initializationPromise, promise>>)
                  /\ Heap' = S.H
                  /\ isDaemonReady' = S.ready
                  /\ startupTimeout' = S.timers
                  /\ daemonProcess' = daemonProcess
      ]_vars

\* One chunk brought a line that is not JSON and, after it, the reply to
\* caller 1, and caller 1 was resolved with that reply.
MalformedThenReply ==
    /\ \E k \in 1..Len(arrived) : arrived[k] = <<Junk, NL, ResultRec(1), NL>>
    /\ \E i \in 1..Len(framed) : framed[i] = <<Junk>>
    /\ outcome[1] = Resolved(1)

----------------------------------------------------------------------------
\* The text of a sequence of chunks.
RECURSIVE Text(_)
Text(chunks) ==
    IF chunks = <<>> THEN <<>> ELSE Head(chunks) \o Text(Tail(chunks))

\* C18: the lines handed to the loop do not depend on where the chunks were
\* cut.  At every moment the lines processed so far, followed by the complete
\* lines still in the buffer, are the lines of the whole text that has arrived,
\* and the buffer's fragment is that text's fragment; a complete line waits in
\* the buffer only while a processStdoutBuffer call is scheduled; so when the
\* text ends in a newline and no call is scheduled, the lines processed are
\* those of the text delivered as one chunk, each once.
FramingIgnoresChunkBoundaries ==
    /\ framed \o Split(stdoutBuffer).lines = Split(Text(arrived)).lines
    /\ Split(stdoutBuffer).rest = Split(Text(arrived)).rest
    /\ (immediates = {} => Split(stdoutBuffer).lines = <<>>)
    /\ (immediates = {} /\ arrived # <<>> /\ Last(Text(arrived)) = NL) =>
           (framed = Split(Text(arrived)).lines /\ stdoutBuffer = <<>>)

\* The reply to caller 1 arrived in three chunks, the newline in the third,
\* and was processed as one line, which resolved caller 1.
LineInThreeChunks ==
    /\ immediates = {}
    /\ outcome[1] = Resolved(1)
    /\ \E k \in 1..(Len(arrived) - 2) : \E i \in 1..Len(framed) :
          /\ arrived[k] \o arrived[k + 1] \o arrived[k + 2] = Append(framed[i], NL)
          /\ Decodes(framed[i])
          /\ Record(framed[i]) = ResultRec(1)
          /\ \A j \in 1..Len(framed) :
                (Decodes(framed[j]) /\ Record(framed[j]) = ResultRec(1)) => j = i

----------------------------------------------------------------------------
\* Caller c has called parseFile()/parseContent() and its promise is unsettled:
\* it awaits the start, or its request is in the slot or the queue.
Unsettled(c) == call[c] # NoCall /\ outcome[c].kind = "none"

\* The step is a startup timeout that finds the session not ready.
TimeoutActs == \E a \in Attempts : startupTimeoutFires(a) /\ ~isDaemonReady

\* The step is a startDaemon() whose spawn() throws or gives no stdout.
SpawnFails ==
    /\ nStarts' = nStarts + 1
    /\ promise'[nStarts'] \in {"spawnthrow", "nostdout"}

----------------------------------------------------------------------------
\* C22: in the FIFO parser the queue never holds two unsettled entries for the
\* same file path, and a caller that found its path pending is attached to
\* that entry and has no queue entry and no request line of its own.
OneEntryPerKey ==
    IsFifo =>
       /\ \A i, j \in 1..Len(requestQueue) :
             (/\ i < j
              /\ outcome[requestQueue[i]].kind = "none"
              /\ outcome[requestQueue[j]].kind = "none")
             => call[requestQueue[i]].filePath # call[requestQueue[j]].filePath
       /\ \A c \in Callers :
             (call[c].st = "sent" /\ call[c].servedBy # c) =>
                 /\ ~InSeq(c, requestQueue)
                 /\ \A p \in Attempts : ~InSeq(c, proc[p].stdin)
                 /\ call[call[c].servedBy].filePath = call[c].filePath

\* Caller 2 asked for the path of caller 1's pending request: the queue holds
\* the one entry of caller 1, the child was sent one line, and both wait.
SecondCallerJoined ==
    /\ IsFifo
    /\ requestQueue = <<1>>
    /\ attached[1] = <<2>>
    /\ Unsettled(1) /\ Unsettled(2)
    /\ call[2] = [st |-> "sent", filePath |-> call[1].filePath, servedBy |-> 1]
    /\ daemonProcess # 0
    /\ Outstanding(daemonProcess) = 1

----------------------------------------------------------------------------
\* The collection holds the diagnostics made from the errors of a reply.
FromErrors ==
    /\ validation = "done"
    /\ diagnosticCollection # <<>>
    /\ \A r \in Reasons : diagnosticCollection # CatchDiagnostics(r)

\* The text before and after the first delimiter of an error string.
FirstDelim(e) == CHOOSE i \in 1..Len(e) : e[i] = Delim /\ \A j \in 1..(i - 1) : e[j] # Delim
BeforeDelim(e) == SubSeq(e, 1, FirstDelim(e) - 1)
AfterDelim(e) == SubSeq(e, FirstDelim(e) + 1, Len(e))
CarriesLine(e) == InSeq(Delim, e) /\ ~parseInt(BeforeDelim(e)).nan
LineNumber(e) == parseInt(BeforeDelim(e)).n

\* C23: an error string that carries the line number n is anchored at n - 1
\* when that is a line of the document, at line 0 when n - 1 is below 0 and at
\* the last line when n - 1 is beyond it; every diagnostic is on a line of the
\* document.
LineWithinDocument ==
    FromErrors =>
       /\ Len(diagnosticCollection) = Len(errors)
       /\ \A i \in 1..Len(errors) :
             /\ diagnosticCollection[i].range.line \in 0..(lineCount - 1)
             /\ CarriesLine(errors[i]) =>
                   LET n == LineNumber(errors[i])
                   IN  diagnosticCollection[i].range.line =
                          IF n - 1 < 0 THEN 0
                          ELSE IF n - 1 > lineCount - 1 THEN lineCount - 1
                          ELSE n - 1

\* A reply with the line numbers 0 and 3 for a document of two lines gave
\* diagnostics on the lines 0 and 1.
ClampedAtBothEnds ==
    /\ FromErrors
    /\ lineCount = 2
    /\ errors = << <<"0", Delim>>, <<"3", Delim>> >>
    /\ diagnosticCollection[1].range = LineRange(0)
    /\ diagnosticCollection[2].range = LineRange(1)

\* C24: one diagnostic per error string, in order: on the carried line with
\* the text after the delimiter as message when the string has the delimiter
\* and a number before it, and else on line 0 with the whole string.
OneDiagnosticPerError ==
    FromErrors =>
       /\ Len(diagnosticCollection) = Len(errors)
       /\ \A i \in 1..Len(errors) :
             diagnosticCollection[i] =
                IF CarriesLine(errors[i])
                THEN Diagnostic(LineRange(ClampLine(LineNumber(errors[i]), lineCount)),
                                AfterDelim(errors[i]))
                ELSE Diagnostic(GenericRange, errors[i])

\* C25: a rejected parse request ends doValidation with exactly one diagnostic
\* in the collection, on the first character of line 0, whose message is
\* 'Validation failed: ' and the reason.
RejectionBecomesDiagnostic ==
    [][\A r \in Reasons :
          doValidationRejected(r) =>
             /\ validation' = "done"
             /\ diagnosticCollection' =
                   << [range |-> [line |-> 0, extent |-> "first character"],
                       message |-> <<"Validation failed: ", r>>] >>
      ]_vars

\* A validation whose request was superseded ended with the one diagnostic
\* 'Validation failed: cancelled'.
SupersededValidationShown ==
    /\ validation = "done"
    /\ errors # <<>>
    /\ Len(diagnosticCollection) = 1
    /\ diagnosticCollection[1].message = ValidationFailed("cancelled")

----------------------------------------------------------------------------
\* C26 as stated: an 'error' event with code ENOENT makes the start fail with
\* the not-found error and every other 'error' event makes it fail with the
\* 'Daemon error' error.
ErrorEventNamesTheFailure ==
    [][\A p \in Attempts :
          onError(p) => promise'[p] = ErrorMessage(proc[p].code)
      ]_vars

\* C26, amended: an 'error' event with code ENOENT makes the start fail with
\* the not-found error; any other 'error' event makes it fail with the 'Daemon
\* error' error unless the start has failed already because the child has no
\* stdout; a start fails with the not-found error, and the install hint is
\* shown for it, only when its child's spawn failed with ENOENT.
NotFoundIsDistinct ==
    [][/\ \A p \in Attempts :
             onError(p) =>
                /\ promise'[p] = IF proc[p].hasStdout THEN ErrorMessage(proc[p].code)
                                 ELSE "nostdout"
                /\ (proc[p].code = "ENOENT") <=> (promise'[p] = "notfound")
       /\ \A a \in Attempts :
             /\ ShowsInstallHint(promise'[a]) <=> (promise'[a] = "notfound")
             /\ (promise'[a] = "notfound") =>
                   (proc'[a].code = "ENOENT" /\ proc'[a].st \in {"exited", "closed"})
             /\ (promise'[a] = "daemonerror") =>
                   (proc'[a].code \notin {"ENOENT", "ok"}
                      /\ proc'[a].st \in {"exited", "closed"})
      ]_vars

\* The first start failed with ENOENT and the second with another error: the
\* first was rejected with the not-found error, the second with 'Daemon error'.
BothErrorKindsSeen ==
    /\ proc[1].code = "ENOENT" /\ promise[1] = "notfound"
    /\ proc[2].code = "EACCES" /\ promise[2] = "daemonerror"
    /\ ShowsInstallHint(promise[1]) /\ ~ShowsInstallHint(promise[2])

----------------------------------------------------------------------------
\* C27: the promise of every start attempt is settled in the end.
InitializeSettles ==
    \A a \in Attempts : (promise[a] = "pending") ~> (promise[a] # "pending")

----------------------------------------------------------------------------
\* Child p is alive and has not been killed.
Alive(p) == proc[p].st = "running"

\* C28: at most one child of the session is alive and not killed, and it is
\* the one the session holds the handle of.
OneProcessPerSession ==
    /\ Cardinality({p \in Attempts : Alive(p)}) <= 1
    /\ \A p \in Attempts : Alive(p) => daemonProcess = p

----------------------------------------------------------------------------
\* The lines that are handed to JSON.parse: those that are not blank.
NotBlank(line) == ~Blank(line)
ToDecode(lines) == SelectSeq(lines, NotBlank)
HasNewline(text) == \E i \in 1..Len(text) : text[i] = NL

\* C29: a processStdoutBuffer call leaves no newline in the buffer, only the
\* text after the last newline; and the lines handed to decoding so far,
\* followed by those of the buffer, are the lines of the text that arrived,
\* each once and in its place.
EachLineDecodedOnce ==
    [][/\ (\E a \in Attempts : processStdoutBuffer(a)) =>
             (/\ ~HasNewline(stdoutBuffer')
              /\ stdoutBuffer' = Split(Text(arrived)).rest
              /\ ToDecode(framed') = ToDecode(Split(Text(arrived)).lines))
       /\ ToDecode(framed' \o Split(stdoutBuffer').lines)
             = ToDecode(Split(Text(arrived')).lines)
      ]_vars

\* One chunk brought the reply to caller 1 and the beginning of the reply to
\* caller 2: the first was handed to decoding and the second is retained.
IncompleteRecordRetained ==
    /\ immediates = {}
    /\ arrived # <<>> /\ framed # <<>>
    /\ Last(arrived) = <<ResultRec(1), NL, ResultRec(2)>>
    /\ Last(framed) = <<ResultRec(1)>>
    /\ stdoutBuffer = <<ResultRec(2)>>

----------------------------------------------------------------------------
Queued(x, q) == \E i \in 1..Len(q) : q[i] = x

\* C30: fifo: an entry that a step removes from requestQueue is settled by
\* that step at the latest, and pendingRequests no longer holds it.
PoppedEntrySettled ==
    [][IsFifo =>
         \A x \in Callers :
            (Queued(x, requestQueue) /\ ~Queued(x, requestQueue')) =>
               (/\ outcome'[x].kind # "none"
                /\ pendingRequests'[call[x].filePath] # x)
      ]_vars

----------------------------------------------------------------------------
\* Every `new TgsParser(...)` has evaluated to the instance.
SharedInstance == \A i \in 1..Len(constructed) : constructed[i] = instance

\* The step calls spawn().
Spawns == nStarts' = nStarts + 1

\* C31 as stated: every construction yields the one instance, and a process
\* other than the first is spawned only by initialize().
ReplacedOnlyByInitialize ==
    [][/\ SharedInstance'
       /\ (Spawns /\ nStarts >= 1) => initialize
      ]_vars

\* C31, amended: every construction yields the one instance, and a process is
\* spawned, by initialize() or by a parse request, only when the session holds
\* no process handle.
SpawnsOnlyWithoutHandle ==
    [][/\ SharedInstance'
       /\ Spawns => daemonProcess = 0
      ]_vars

\* The constructor ran twice; typegen was not found at the first start and
\* dispose() was never called; a parse request has started the second process.
SecondProcessWithoutDispose ==
    /\ constructed = <<1, 1>>
    /\ nFaults = 1 /\ proc[1].code = "ENOENT"
    /\ daemonProcess = 2 /\ proc[2].st = "running"
    /\ waiters[2] = <<1>>

----------------------------------------------------------------------------
\* C32: processErrors gives back the message the worker escaped, and
\* processErrors applied to its own result changes nothing.
EscapesReversed ==
    /\ (Len(decoded) >= 1 /\ wire = Encode(original)) => decoded[1] = original
    /\ Len(decoded) = 2 => decoded[2] = decoded[1]

\* The message "<'<SPACE>" was escaped, decoded and decoded again.
DelimiterAndQuoteDecoded ==
    /\ original = <<"<", "'", "<", "SPACE", ">">>
    /\ wire # original
    /\ decoded = <<original, original>>

----------------------------------------------------------------------------
\* C33: a ready session holds a process handle.
ReadyImpliesHandle == isDaemonReady => daemonProcess # 0

\* The session's current process is one of a later start than attempt p.
Superseded(p) == daemonProcess \notin {0, p}

\* A request line was written to the current process and awaits its reply.
SentToCurrent(c) ==
    /\ daemonProcess # 0
    /\ InSeq(c, proc[daemonProcess].stdin)
    /\ outcome[c].kind = "none"

\* C34: the 'close' or 'error' event of a child that ran and is no longer the
\* session's process leaves the handle, the ready flag and the
\* initializationPromise as they are and settles no request written to the
\* current process.
StaleEventChangesNothing ==
    [][\A p \in Attempts :
          ((onClose(p) \/ onError(p)) /\ Superseded(p) /\ proc[p].code = "ok") =>
             (/\ UNCHANGED <<daemonProcess, isDaemonReady, initializationPromise>>
              /\ \A c \in Callers : SentToCurrent(c) => outcome'[c] = outcome[c])
      ]_vars

\* C35: the startup timer of an attempt whose process is no longer the
\* session's kills no process and leaves the handle and the
\* initializationPromise as they are.
StaleTimerChangesNothing ==
    [][\A a \in Attempts :
          (startupTimeoutCallback(a) /\ Superseded(a)) =>
             UNCHANGED <<daemonProcess, initializationPromise, proc>>
      ]_vars

\* C36: slot: the write callback of a request that is no longer in the slot,
\* reporting an error, leaves the request in the slot there and settles no
\* other caller.
SupersededWriteFailureHarmless ==
    [][IsSlot =>
         \A c \in Callers :
            (onWriteError(c) /\ currentRequest \notin {0, c}) =>
               (/\ currentRequest' = currentRequest
                /\ \A d \in Callers : d # c => outcome'[d] = outcome[d])
      ]_vars

----------------------------------------------------------------------------
\* doValidation of caller c has passed its await: with a result it computes
\* the diagnostics of its document from the reply, and with a rejection it
\* sets the one diagnostic `Validation failed: <reason>`.  Each caller is a
\* validateDocument(document, true) call for the document call[c].filePath.
ShowsReplyTo(c, x) == outcome[c].kind = "ok" /\ outcome[c].reply = x
ShowsCancelled(c) == outcome[c] = Rejected("cancelled")

\* C37: validations of distinct documents do not disturb each other: a
\* document's diagnostics are computed from the reply to a request for that
\* document, and a validation fails as cancelled only through a newer request
\* for the same document.
ValidationsIndependent ==
    [][\A c \in Callers :
          /\ \A x \in Callers :
                ShowsReplyTo(c, x)' => call'[x].filePath = call'[c].filePath
          /\ (~ShowsCancelled(c) /\ ShowsCancelled(c)') =>
                \E d \in Callers :
                   /\ acceptedLog' = Append(acceptedLog, d)
                   /\ call'[d].filePath = call[c].filePath
      ]_vars

----------------------------------------------------------------------------
\* The debounce timers armed for a document.
ArmedFor(uri) == {t \in 1..Len(timeouts) : Armed(t) /\ timeouts[t].uri = uri}

\* C38: at most one debounce timer is armed per uri; a debounced
\* validateDocument call leaves exactly one, starting no parse request itself;
\* a timer that fires starts one parse request and leaves none armed for its
\* uri; and dispose() leaves no timer armed.
OneDebounceTimerPerUri ==
    [][/\ \A u \in Uris : Cardinality(ArmedFor(u)') <= 1
       /\ \A u \in Uris : validateDebounced(u) =>
             (Cardinality(ArmedFor(u)') = 1 /\ parses' = parses)
       /\ \A t \in 1..Len(timeouts) : validationTimeoutFires(t) =>
             (/\ parses' = [parses EXCEPT ![timeouts[t].uri] = @ + 1]
              /\ ArmedFor(timeouts[t].uri)' = {})
       /\ providerDispose => \A u \in Uris : ArmedFor(u)' = {}
      ]_vars

\* Three text changes of document a within the window: two timers were
\* cleared, the third fired and started the one parse request.
ThreeChangesOneParse ==
    /\ Len(timeouts) = 3
    /\ \A t \in 1..3 : timeouts[t].uri = "a"
    /\ timeouts[1].st = "cleared" /\ timeouts[2].st = "cleared"
    /\ timeouts[3].st = "fired"
    /\ parses["a"] = 1

----------------------------------------------------------------------------
\* C39: a restart command that succeeds after a failed activation calls
\* validateDocument for every open document.
RestartRevalidates ==
    (activation = "failed" /\ restart.st = "restarted") => revalidated = Uris

====
